---- MODULE Spec2Model ----
(***************************************************************************)
(* Verification model of the flash-attention tooling:                      *)
(*   - the forward tile-size selector (hopper/tile_size.h) together with   *)
(*     the shared-memory estimate of its test,                             *)
(*   - run_stages of the environment validator,                            *)
(*   - extract_unique_error_lines of the two log filters,                  *)
(*   - check_file of the bracket lint.                                     *)
(* Each program has its own specification; the variables of the other      *)
(* programs stay at their idle values.                                     *)
(***************************************************************************)
EXTENDS Integers, Sequences, FiniteSets, TLC

VARIABLES
    \* tile-size test
    t_pc, cfg, outcome, tile, smem_bytes, est,
    \* run_stages
    s_pc, max_stage, stop_on_failure, index, ran, results,
    \* extract_unique_error_lines
    f_pc, marker, f_in, pos, seen, f_out,
    \* check_file
    k_pc, text, idx, stack, problems

tileVars == <<t_pc, cfg, outcome, tile, smem_bytes, est>>
stageVars == <<s_pc, max_stage, stop_on_failure, index, ran, results>>
filterVars == <<f_pc, marker, f_in, pos, seen, f_out>>
tokenVars == <<k_pc, text, idx, stack, problems>>
vars == <<tileVars, stageVars, filterVars, tokenVars>>

None == "None"
\* an optional integer (int | None): << >> is None, <<n>> is the integer n
NoInt == << >>
Int1(n) == <<n>>

Min(a, b) == IF a <= b THEN a ELSE b
Max(a, b) == IF a >= b THEN a ELSE b

(***************************************************************************)
(* Idle values of each program's variables.                                *)
(***************************************************************************)
NoCfg == [headdim |-> 0, headdim_v |-> 0, is_causal |-> FALSE, is_local |-> FALSE,
          element_size |-> 0, v_colmajor |-> FALSE, paged_kv_non_TMA |-> FALSE,
          softcap |-> FALSE]
NoTile == [block_m |-> 0, block_n |-> 0]
NoEst == [block_m |-> 0, block_n |-> 0, headdim |-> 0, headdim_v |-> 0,
          element_size |-> 0, result |-> 0]

TileIdle ==
    /\ t_pc = "idle" /\ cfg = NoCfg /\ outcome = None /\ tile = NoTile
    /\ smem_bytes = 0 /\ est = NoEst
StageIdle ==
    /\ s_pc = "idle" /\ max_stage = NoInt /\ stop_on_failure = FALSE
    /\ index = 0 /\ ran = << >> /\ results = << >>
FilterIdle ==
    /\ f_pc = "idle" /\ marker = None /\ f_in = << >> /\ pos = 0
    /\ seen = {} /\ f_out = << >>
TokenIdle ==
    /\ k_pc = "idle" /\ text = << >> /\ idx = 0 /\ stack = << >>
    /\ problems = << >>

(***************************************************************************)
(* Tile-size selection and the shared-memory budget test.                  *)
(***************************************************************************)
SMEM_LIMIT_BYTES == 101376

\* the grid of the test
head_dims == {64, 96, 128, 160, 192, 256, 320}
value_dims == {64, 96, 128, 160, 192, 256, 512}
\* shapes off the grid: a non-positive one and one past the grid
ExtraDims == {0, 512}
MaxElementSize == 4
MaxBlockUnits == 3

Configs ==
    [headdim : head_dims \cup ExtraDims, headdim_v : value_dims \cup ExtraDims,
     is_causal : BOOLEAN, is_local : BOOLEAN, element_size : {1, 2, MaxElementSize},
     v_colmajor : BOOLEAN, paged_kv_non_TMA : BOOLEAN, softcap : BOOLEAN]

\* estimate_smem_bytes of the test, with a buffering threshold off by one
estimate_smem_bytes_strict(block_m, block_n, headdim, headdim_v, element_size) ==
    LET buffering == IF headdim_v > 256 \/ headdim + headdim_v > 512 THEN 1 ELSE 2
    IN  buffering * (block_m + block_n) * (headdim + headdim_v) * element_size

estimate_smem_bytes(block_m, block_n, headdim, headdim_v, element_size) ==
    LET buffering == IF headdim_v >= 256 \/ headdim + headdim_v >= 512 THEN 1 ELSE 2
    IN  buffering * (block_m + block_n) * (headdim + headdim_v) * element_size

\* ---- the selector (hopper/tile_size.h is not part of the sources at hand;
\* ---- it is modelled from the specification's sections 3, 4.1 and 7)
BufferingDepth(c) ==
    IF c.headdim_v >= 256 \/ c.headdim + c.headdim_v >= 512 THEN 1 ELSE 2

BudgetEstimate(c, t) ==
    BufferingDepth(c) * (t.block_m + t.block_n) * (c.headdim + c.headdim_v)
        * c.element_size

\* a fit test that forgets the buffering depth
FitsSingleBuffered(c, t) ==
    (t.block_m + t.block_n) * (c.headdim + c.headdim_v) * c.element_size
        <= SMEM_LIMIT_BYTES

Fits(c, t) == BudgetEstimate(c, t) <= SMEM_LIMIT_BYTES

\* a validity test that lets the two masking modes through together
IsInvalidConfigurationLax(c) ==
    c.headdim <= 0 \/ c.headdim_v <= 0 \/ c.element_size <= 0

IsInvalidConfiguration(c) ==
    \/ (c.is_causal /\ c.is_local)
    \/ c.headdim <= 0 \/ c.headdim_v <= 0 \/ c.element_size <= 0

\* step 1: baseline by head-dimension bucket
BaselineTile(c) ==
    IF c.headdim <= 64 THEN [block_m |-> 192, block_n |-> 192]
    ELSE IF c.headdim <= 96 THEN [block_m |-> 192, block_n |-> 144]
    ELSE IF c.headdim <= 128 THEN [block_m |-> 128, block_n |-> 176]
    ELSE IF c.headdim <= 192 THEN [block_m |-> 128, block_n |-> 128]
    ELSE [block_m |-> 128, block_n |-> 80]

\* step 2: masking-mode adjustment
MaskingAdjust(c, t) ==
    IF c.is_causal \/ c.is_local
    THEN [t EXCEPT !.block_n = Min(t.block_n, 128)]
    ELSE t

\* step 3: layout and feature adjustments, each of which may only shrink
FeatureAdjust(c, t) ==
    LET a == IF c.paged_kv_non_TMA
             THEN [t EXCEPT !.block_n = Min(t.block_n, 128)] ELSE t
        b == IF c.v_colmajor
             THEN [a EXCEPT !.block_n = Min(a.block_n, 128)] ELSE a
    IN  IF c.softcap THEN [b EXCEPT !.block_m = Min(b.block_m, 128)] ELSE b

\* step 4: the candidate ladder, largest first
Ladder ==
    << [block_m |-> 192, block_n |-> 128], [block_m |-> 128, block_n |-> 128],
       [block_m |-> 128, block_n |-> 96],  [block_m |-> 128, block_n |-> 64],
       [block_m |-> 64, block_n |-> 64],   [block_m |-> 64, block_n |-> 32],
       [block_m |-> 32, block_n |-> 32],   [block_m |-> 32, block_n |-> 16],
       [block_m |-> 16, block_n |-> 16] >>

NotLarger(t, u) == t.block_m <= u.block_m /\ t.block_n <= u.block_n

\* the rungs at or below the candidate that fit, as ladder positions
FittingRungs(c, cand) ==
    {i \in 1..Len(Ladder) : NotLarger(Ladder[i], cand) /\ Fits(c, Ladder[i])}

StepDown(c, cand) ==
    IF Fits(c, cand) THEN [outcome |-> "ok", tile |-> cand]
    ELSE IF FittingRungs(c, cand) = {}
         THEN [outcome |-> "BudgetUnsatisfiable", tile |-> NoTile]
         ELSE LET i == CHOOSE j \in FittingRungs(c, cand) :
                           \A k \in FittingRungs(c, cand) : j <= k
              IN  [outcome |-> "ok", tile |-> Ladder[i]]

tile_size_fwd_sm90(c) ==
    IF IsInvalidConfiguration(c)
    THEN [outcome |-> "InvalidConfiguration", tile |-> NoTile]
    ELSE StepDown(c, FeatureAdjust(c, MaskingAdjust(c, BaselineTile(c))))

\* ---- the test's steps
\* tile_size_fwd_sm90_bridge: one call of the selector
CallBridge ==
    /\ t_pc = "idle"
    /\ \E c \in Configs :
        /\ cfg' = c
        /\ outcome' = tile_size_fwd_sm90(c).outcome
        /\ tile' = tile_size_fwd_sm90(c).tile
    /\ t_pc' = "called"
    /\ UNCHANGED <<smem_bytes, est, stageVars, filterVars, tokenVars>>

\* smem_bytes = estimate_smem_bytes(block_m.value, block_n.value, ...)
EstimateReturned ==
    /\ t_pc = "called" /\ outcome = "ok"
    /\ smem_bytes' = estimate_smem_bytes(tile.block_m, tile.block_n, cfg.headdim,
                                         cfg.headdim_v, cfg.element_size)
    /\ t_pc' = "estimated"
    /\ UNCHANGED <<cfg, outcome, tile, est, stageVars, filterVars, tokenVars>>

\* assert smem_bytes <= SMEM_LIMIT_BYTES
AssertBudget ==
    /\ t_pc = "estimated"
    /\ t_pc' = IF smem_bytes <= SMEM_LIMIT_BYTES THEN "passed" ELSE "AssertionError"
    /\ UNCHANGED <<cfg, outcome, tile, smem_bytes, est, stageVars, filterVars, tokenVars>>

\* estimate_smem_bytes on arguments of the caller's choice
BlockSizes == {16 * k : k \in 1..MaxBlockUnits} \cup {1, 128}
EstimateAny ==
    /\ t_pc = "idle"
    /\ \E bm \in BlockSizes, bn \in BlockSizes,
          hd \in head_dims \cup {1, 512}, hv \in value_dims \cup {1},
          es \in 1..MaxElementSize :
        est' = [block_m |-> bm, block_n |-> bn, headdim |-> hd, headdim_v |-> hv,
                element_size |-> es,
                result |-> estimate_smem_bytes(bm, bn, hd, hv, es)]
    /\ t_pc' = "est"
    /\ UNCHANGED <<cfg, outcome, tile, smem_bytes, stageVars, filterVars, tokenVars>>

TileInit == TileIdle /\ StageIdle /\ FilterIdle /\ TokenIdle
TileNext == CallBridge \/ EstimateReturned \/ AssertBudget \/ EstimateAny
SpecTile == TileInit /\ [][TileNext]_vars

\* ---- properties of the tile-size test
GridCase ==
    /\ cfg.headdim \in head_dims /\ cfg.headdim_v \in value_dims
    /\ ~(cfg.is_causal /\ cfg.is_local)
    /\ cfg.element_size = 2 /\ ~cfg.v_colmajor /\ ~cfg.softcap

Called == t_pc \in {"called", "estimated", "passed", "AssertionError"}

\* C1: on the grid of the test (head_dim x head_dim_v, every masking mode but
\* causal-and-local, both values of paged_kv_non_tma, 2-byte elements, row-major
\* V, no softcap) the selector returns tile dims, and
\* buffering * (block_m + block_n) * (head_dim + head_dim_v) * 2 <= 101376.
C1_BudgetInvariant ==
    (Called /\ GridCase) =>
        /\ outcome = "ok"
        /\ tile.block_m > 0 /\ tile.block_n > 0
        /\ (IF cfg.headdim_v >= 256 \/ cfg.headdim + cfg.headdim_v >= 512
            THEN 1 ELSE 2)
             * (tile.block_m + tile.block_n) * (cfg.headdim + cfg.headdim_v) * 2
           <= 101376

\* the tightest case of the grid has been called and its assertion evaluated
C1_Witness ==
    /\ t_pc = "passed" /\ outcome = "ok"
    /\ cfg.headdim = 320 /\ cfg.headdim_v = 512
    /\ ~cfg.is_causal /\ ~cfg.is_local /\ cfg.paged_kv_non_TMA
    /\ cfg.element_size = 2 /\ ~cfg.v_colmajor /\ ~cfg.softcap

\* C2: estimate_smem_bytes returns
\* buffering * (block_m + block_n) * (headdim + headdim_v) * element_size with
\* buffering 1 exactly when headdim_v >= 256 or headdim + headdim_v >= 512, else
\* 2; the depth is 1 at (256, 256) and (320, 192), 2 at (256, 192) and (192, 192).
C2_EstimateFormula ==
    t_pc = "est" =>
        LET area == (est.block_m + est.block_n) * (est.headdim + est.headdim_v)
                        * est.element_size
            shape == <<est.headdim, est.headdim_v>>
        IN  /\ (est.headdim_v >= 256 \/ est.headdim + est.headdim_v >= 512)
                   => est.result = area
            /\ ~(est.headdim_v >= 256 \/ est.headdim + est.headdim_v >= 512)
                   => est.result = area + area
            /\ shape \in {<<256, 256>>, <<320, 192>>} => est.result = area
            /\ shape \in {<<256, 192>>, <<192, 192>>} => est.result = 2 * area

\* the estimate has been taken at a shape on the buffering threshold
C2_Witness ==
    /\ t_pc = "est" /\ est.headdim = 320 /\ est.headdim_v = 192
    /\ est.block_m = 128 /\ est.block_n = 16 /\ est.result > 0

\* C3: a call with is_causal and is_local both true raises InvalidConfiguration
\* for every shape and every value of the other flags; no tile dims come back.
C3_CausalLocalRejected ==
    (Called /\ cfg.is_causal /\ cfg.is_local) =>
        /\ outcome = "InvalidConfiguration"
        /\ tile = NoTile
        /\ t_pc = "called"

\* a causal-and-local call on a grid shape has been made
C3_Witness ==
    /\ t_pc = "called" /\ cfg.is_causal /\ cfg.is_local
    /\ cfg.headdim = 128 /\ cfg.headdim_v = 128 /\ cfg.element_size = 2
    /\ outcome = "InvalidConfiguration"

(***************************************************************************)
(* run_stages of the environment validator.                                *)
(***************************************************************************)
\* build_stages: the stages, by name, in list order
build_stages ==
    << "torch-version", "cuda-environment", "flash-attn3-package",
       "flash-attn3-ops", "flash-attn3-build-info", "flash-attn3-smoke-test" >>

\* --max-stage values tried: None and the integers -MaxStageArg..MaxStageArg
MaxStageArg == 7
MaxStageArgs == {NoInt} \cup {Int1(n) : n \in (0 - MaxStageArg)..MaxStageArg}

\* stages[:n] of Python, for an integer n
SlicePrefix(stages, n) ==
    IF n >= 0 THEN SubSeq(stages, 1, Min(n, Len(stages)))
    ELSE IF Len(stages) + n > 0 THEN SubSeq(stages, 1, Len(stages) + n)
    ELSE << >>

\* selected = stages if max_stage is None else stages[:max_stage]
Selected(stages, n) == IF n = NoInt THEN stages ELSE SlicePrefix(stages, n[1])

\* the break that ignores --stop-on-failure
ShouldBreakAlways(stop, passed) == ~passed
\* the break that never happens
ShouldBreakNever(stop, passed) == FALSE

\* except Exception: ...; if stop_on_failure: break
ShouldBreak(stop, passed) == ~passed /\ stop

\* run_stages(stages, max_stage=..., stop_on_failure=..., print_traceback=...)
CallRunStages ==
    /\ s_pc = "idle"
    /\ \E n \in MaxStageArgs, stop \in BOOLEAN :
        /\ max_stage' = n
        /\ stop_on_failure' = stop
    /\ results' = << >>
    /\ ran' = << >>
    /\ index' = 0
    /\ s_pc' = "loop"
    /\ UNCHANGED <<tileVars, filterVars, tokenVars>>

\* one iteration of the for loop: the runner passes or raises an Exception
RunStage ==
    /\ s_pc = "loop"
    /\ index < Len(Selected(build_stages, max_stage))
    /\ LET stage == Selected(build_stages, max_stage)[index + 1] IN
       \E passed \in BOOLEAN :
        /\ ran' = Append(ran, stage)
        /\ results' = Append(results, [name |-> stage, passed |-> passed])
        /\ index' = index + 1
        /\ s_pc' = IF ShouldBreak(stop_on_failure, passed) THEN "returned" ELSE "loop"
    /\ UNCHANGED <<max_stage, stop_on_failure, tileVars, filterVars, tokenVars>>

\* the loop runs out of selected stages: return results
ReturnResults ==
    /\ s_pc = "loop"
    /\ index = Len(Selected(build_stages, max_stage))
    /\ s_pc' = "returned"
    /\ UNCHANGED <<max_stage, stop_on_failure, index, ran, results,
                   tileVars, filterVars, tokenVars>>

StageInit == TileIdle /\ StageIdle /\ FilterIdle /\ TokenIdle
StageNext == CallRunStages \/ RunStage \/ ReturnResults
SpecStages == StageInit /\ [][StageNext]_vars

\* ---- properties of run_stages
IsPrefix(s, t) == Len(s) <= Len(t) /\ s = SubSeq(t, 1, Len(s))
Failed == {i \in 1..Len(results) : ~results[i].passed}

\* C4: with stop_on_failure = false every selected stage runs exactly once, in
\* list order, whatever subset fails: one result per selected stage, and a
\* failure of stage i never keeps a later stage from running.
C4_AllStagesRun ==
    (s_pc = "returned" /\ ~stop_on_failure) =>
        LET sel == Selected(build_stages, max_stage) IN
        /\ ran = sel
        /\ Len(results) = Len(sel)
        /\ \A i \in 1..Len(sel) : results[i].name = sel[i]
        /\ \A i \in Failed : \A j \in (i + 1)..Len(sel) : ran[j] = sel[j]

\* all six stages selected, the first and the fourth failed, and all six ran
C4_Witness ==
    /\ s_pc = "returned" /\ ~stop_on_failure /\ max_stage = NoInt
    /\ Failed = {1, 4} /\ Len(ran) = 6

\* C5: with stop_on_failure = true the run stops after the first failing stage:
\* nothing runs after it, the results hold at most one failed result, and that
\* one is the last, every result before it being passed.
C5_StopsAtFirstFailure ==
    stop_on_failure =>
        /\ Cardinality(Failed) <= 1
        /\ \A i \in Failed : i = Len(results) /\ s_pc = "returned"
        /\ Len(ran) = Len(results)
        /\ IsPrefix(ran, Selected(build_stages, max_stage))

\* the third stage failed with stages left to run, and the run returned
C5_Witness ==
    /\ s_pc = "returned" /\ stop_on_failure /\ max_stage = NoInt
    /\ Failed = {3} /\ Len(ran) = 3

\* C6: for every integer N given as max_stage, the stages run are a prefix of
\* the stage list of length at most N (min(N, number of stages) when no stop
\* occurs), and with max_stage = NoInt all stages are selected.
C6_FirstNStages ==
    s_pc = "returned" =>
        /\ IsPrefix(ran, build_stages)
        /\ max_stage # NoInt =>
            /\ Len(ran) <= Max(max_stage[1], 0)
            /\ Failed = {} => Len(ran) = Max(Min(max_stage[1], Len(build_stages)), 0)
        /\ (max_stage = NoInt /\ Failed = {}) => ran = build_stages

(***************************************************************************)
(* extract_unique_error_lines of filter_errors.py and filter_warnings.py.  *)
(* A line is the sequence of its tokens, the line terminator "\n" included *)
(* as the file iterator yields it; only the last line of a file may lack   *)
(* it.                                                                     *)
(***************************************************************************)
MaxLines == 3
MaxLineTokens == 2

Words == {"error:", "ERROR:", "warning:", "x"}
Markers == {"error:", "warning:"}
NL == "\n"

\* str.lower, token by token
Lower(tok) ==
    CASE tok = "ERROR:" -> "error:"
      [] tok = "Error:" -> "error:"
      [] tok = "WARNING:" -> "warning:"
      [] tok = "Warning:" -> "warning:"
      [] OTHER -> tok
LowerLine(line) == [i \in 1..Len(line) |-> Lower(line[i])]

\* m in line.lower()
ContainsMarker(m, line) == \E i \in 1..Len(line) : LowerLine(line)[i] = m

SeqsUpTo(S, n) == UNION {[1..k -> S] : k \in 0..n}
LineTexts == SeqsUpTo(Words, MaxLineTokens)
\* the files: every line ends in "\n", but for the last, which may not
Files ==
    {f \in SeqsUpTo({Append(t, NL) : t \in LineTexts} \cup (LineTexts \ {<< >>}),
                    MaxLines) :
        \A i \in 1..(Len(f) - 1) : f[i][Len(f[i])] = NL}

\* a line without its terminator
StripNL(line) ==
    IF line # << >> /\ line[Len(line)] = NL THEN SubSeq(line, 1, Len(line) - 1)
    ELSE line

\* line not in seen
IsNewLine(line, seenLines) == line \notin seenLines

\* open(input_file), open(output_file, "w"); seen = set()
OpenFiles ==
    /\ f_pc = "idle"
    /\ \E f \in Files, m \in Markers :
        /\ f_in' = f
        /\ marker' = m
    /\ seen' = {}
    /\ f_out' = << >>
    /\ pos' = 0
    /\ f_pc' = "loop"
    /\ UNCHANGED <<tileVars, stageVars, tokenVars>>

\* one iteration of: for line in f_in
ReadLine ==
    /\ f_pc = "loop"
    /\ pos < Len(f_in)
    /\ LET line == f_in[pos + 1] IN
       IF ContainsMarker(marker, line) /\ IsNewLine(line, seen)
       THEN /\ seen' = seen \cup {line}
            /\ f_out' = Append(f_out, line)
       ELSE UNCHANGED <<seen, f_out>>
    /\ pos' = pos + 1
    /\ UNCHANGED <<f_pc, marker, f_in, tileVars, stageVars, tokenVars>>

\* end of input: both files are closed
CloseFiles ==
    /\ f_pc = "loop"
    /\ pos = Len(f_in)
    /\ f_pc' = "done"
    /\ UNCHANGED <<marker, f_in, pos, seen, f_out, tileVars, stageVars, tokenVars>>

FilterInit == TileIdle /\ StageIdle /\ FilterIdle /\ TokenIdle
FilterNext == OpenFiles \/ ReadLine \/ CloseFiles
SpecFilter == FilterInit /\ [][FilterNext]_vars

\* ---- properties of the filters
RECURSIVE FirstOccurrences(_, _)
\* the texts of s, each kept at its first occurrence only
FirstOccurrences(s, had) ==
    IF s = << >> THEN << >>
    ELSE IF s[1] \in had THEN FirstOccurrences(Tail(s), had)
    ELSE <<s[1]>> \o FirstOccurrences(Tail(s), had \cup {s[1]})

RECURSIVE MarkedTexts(_, _)
\* the texts (terminator dropped) of the lines of f that carry the marker
MarkedTexts(f, m) ==
    IF f = << >> THEN << >>
    ELSE IF ContainsMarker(m, f[1])
         THEN <<StripNL(f[1])>> \o MarkedTexts(Tail(f), m)
         ELSE MarkedTexts(Tail(f), m)

\* C7: the output holds exactly the input lines that carry the marker
\* (case-insensitively), each distinct line text exactly once (a last line
\* without its newline being the same line as an earlier one of the same
\* text), in the order of first occurrence, and no line without the marker.
C7_Deduplicates ==
    f_pc = "done" =>
        /\ [i \in 1..Len(f_out) |-> StripNL(f_out[i])]
               = FirstOccurrences(MarkedTexts(f_in, marker), {})
        /\ \A i \in 1..Len(f_out) : ContainsMarker(marker, f_out[i])
        /\ \A i \in 1..Len(f_out) : \E j \in 1..Len(f_in) : f_out[i] = f_in[j]

(***************************************************************************)
(* check_file of tools/lint/check_tokens.py.                               *)
(***************************************************************************)
MaxTextLen == 4

Openers == {"{", "[", "("}
Closers == {"}", "]", ")"}
Chars == Openers \cup Closers \cup {"x"}

\* BRACKETS = {"{": "}", "[": "]", "(": ")"}
BRACKETS(ch) ==
    CASE ch = "{" -> "}"
      [] ch = "[" -> "]"
      [] ch = "(" -> ")"

DropLast(st) == SubSeq(st, 1, Len(st) - 1)

\* a closing branch that pops whatever is on top of the stack
OnCloserPopAny(st, ch) ==
    IF st = << >>
    THEN [stack |-> st, unexpected |-> TRUE]
    ELSE [stack |-> DropLast(st), unexpected |-> FALSE]

\* a closing branch that reports a mismatch and pops all the same
OnCloserPopOnMismatch(st, ch) ==
    IF st = << >> THEN [stack |-> st, unexpected |-> TRUE]
    ELSE [stack |-> DropLast(st), unexpected |-> st[Len(st)] # ch]

\* elif ch in BRACKETS.values(): report, or else pop
OnCloser(st, ch) ==
    IF st = << >> \/ st[Len(st)] # ch
    THEN [stack |-> st, unexpected |-> TRUE]
    ELSE [stack |-> DropLast(st), unexpected |-> FALSE]

\* stack = []; problems = []; text = path.read_text(...)
ReadText ==
    /\ k_pc = "idle"
    /\ \E t \in SeqsUpTo(Chars, MaxTextLen) : text' = t
    /\ stack' = << >>
    /\ problems' = << >>
    /\ idx' = 0
    /\ k_pc' = "loop"
    /\ UNCHANGED <<tileVars, stageVars, filterVars>>

\* one iteration of: for idx, ch in enumerate(text)
ScanChar ==
    /\ k_pc = "loop"
    /\ idx < Len(text)
    /\ LET ch == text[idx + 1] IN
       IF ch \in Openers
       THEN /\ stack' = Append(stack, BRACKETS(ch))
            /\ UNCHANGED problems
       ELSE IF ch \in Closers
       THEN /\ stack' = OnCloser(stack, ch).stack
            /\ problems' =
                 IF OnCloser(stack, ch).unexpected
                 THEN Append(problems, [kind |-> "unexpected token", ch |-> <<ch>>,
                                        offset |-> idx])
                 ELSE problems
       ELSE UNCHANGED <<stack, problems>>
    /\ idx' = idx + 1
    /\ UNCHANGED <<k_pc, text, tileVars, stageVars, filterVars>>

\* after the loop: if stack: problems.append(unterminated); return problems
ReturnProblems ==
    /\ k_pc = "loop"
    /\ idx = Len(text)
    /\ problems' =
         IF stack # << >>
         THEN Append(problems, [kind |-> "unterminated tokens", ch |-> stack,
                                offset |-> idx])
         ELSE problems
    /\ k_pc' = "returned"
    /\ UNCHANGED <<text, idx, stack, tileVars, stageVars, filterVars>>

TokenInit == TileIdle /\ StageIdle /\ FilterIdle /\ TokenIdle
TokenNext == ReadText \/ ScanChar \/ ReturnProblems
SpecTokens == TokenInit /\ [][TokenNext]_vars

\* ---- properties of check_file
\* the brackets of a text, the other characters dropped
BracketsOf(t) == SelectSeq(t, LAMBDA c : c \in Openers \cup Closers)

IsPair(a, b) ==
    \/ (a = "{" /\ b = "}")
    \/ (a = "[" /\ b = "]")
    \/ (a = "(" /\ b = ")")

RECURSIVE Cancel(_)
\* remove adjacent opener-closer pairs of one kind until none is left
Cancel(s) ==
    IF \E i \in 1..(Len(s) - 1) : IsPair(s[i], s[i + 1])
    THEN LET i == CHOOSE j \in 1..(Len(s) - 1) : IsPair(s[j], s[j + 1])
         IN  Cancel(SubSeq(s, 1, i - 1) \o SubSeq(s, i + 2, Len(s)))
    ELSE s

\* every closer matches the most recent unmatched opener, which is of its
\* kind, and no opener is left over
WellNested(t) == Cancel(BracketsOf(t)) = << >>

C8_EmptyIffWellNested ==
    k_pc = "returned" => (problems = << >> <=> WellNested(text))

C8_UnexpectedKeepsStack ==
    (k_pc = "loop" /\ k_pc' = "loop" /\ Len(problems') > Len(problems))
        => stack' = stack

\* C8: check_file returns no problem exactly when the brackets of the text are
\* well nested, and a step that reports an unexpected closing bracket leaves
\* the stack of expected closers as it was.
C8_CheckFile == [] C8_EmptyIffWellNested /\ [][C8_UnexpectedKeepsStack]_vars

\* a nested, well-formed text came back clean, the stack empty again
C8_Witness ==
    /\ k_pc = "returned" /\ text = <<"(", "[", "]", ")">> /\ problems = << >>
    /\ stack = << >>

\* an unexpected closer was reported with an expected closer still stacked
C8_WitnessUnexpected ==
    /\ k_pc = "loop" /\ idx = 2 /\ text[1] = "(" /\ text[2] = "]"
    /\ Len(problems) = 1 /\ stack = <<")">>

====
